---- MODULE Spec2Model ----
(***************************************************************************)
(* Persistence layer of the TicketTrack satisfaction survey: the record    *)
(* collection kept in localStorage (or behind a remote endpoint), the      *)
(* store operations of each variant of the data service, and the           *)
(* synchronous App / SurveyForm handlers that drive them.                  *)
(*                                                                         *)
(* JavaScript strings are sequences of one-character strings, so that      *)
(* String.prototype.trim and JSON.stringify / JSON.parse are computed.     *)
(***************************************************************************)
EXTENDS Naturals, Sequences, FiniteSets

VARIABLES
    impl,        \* which variant of the data service is deployed
    useCloud,    \* CONFIG.USE_CLOUD_DB of that variant
    storage,     \* localStorage[DB_KEY]
    remote,      \* the collection behind CONFIG.API_URL
    last,        \* the last store call: operation, arguments, outcome
    seedWrites,  \* history: how many times SEED_DATA was written (capped)
    surveyData,  \* App state: the displayed list
    app,         \* App state: mounted, view, authentication, modals
    form,        \* SurveyForm state: ticketError, submitted
    tabs,        \* the asynchronous App, one per browser tab: state and pending calls
    dashboard,   \* Dashboard state: analysis, loadingAnalysis, the call it awaits
    calls        \* store calls issued without awaiting one another, and their history

vars == <<impl, useCloud, storage, remote, last, seedWrites, surveyData, app, form, tabs, dashboard,
          calls>>

-----------------------------------------------------------------------------
(* Bounds of the model *)

\* how many records that are not seed records a collection may hold
MaxInserted == 2

\* seedWrites stops counting here
MaxSeedWrites == 2

-----------------------------------------------------------------------------
(* Strings *)

Range(s) == {s[i] : i \in 1..Len(s)}

WhiteSpace == {" ", "\t", "\n"}

RECURSIVE TrimStart(_)
TrimStart(s) ==
    IF s = <<>> THEN s
    ELSE IF Head(s) \in WhiteSpace THEN TrimStart(Tail(s)) ELSE s

RECURSIVE TrimEnd(_)
TrimEnd(s) ==
    IF s = <<>> THEN s
    ELSE IF s[Len(s)] \in WhiteSpace THEN TrimEnd(SubSeq(s, 1, Len(s) - 1))
    ELSE s

\* String.prototype.trim
Trim(s) == TrimEnd(TrimStart(s))

DigitChars == <<"0", "1", "2", "3", "4", "5", "6", "7", "8", "9">>

\* Number -> its decimal text, as JSON.stringify writes a number
RECURSIVE NumberText(_)
NumberText(n) ==
    IF n < 10 THEN <<DigitChars[n + 1]>>
    ELSE NumberText(n \div 10) \o <<DigitChars[(n % 10) + 1]>>

DigitValue(c) == CHOOSE d \in 0..9 : DigitChars[d + 1] = c

\* decimal text -> Number, as JSON.parse reads a number
RECURSIVE TextNumber(_)
TextNumber(t) ==
    IF Len(t) = 1 THEN DigitValue(t[1])
    ELSE 10 * TextNumber(SubSeq(t, 1, Len(t) - 1)) + DigitValue(t[Len(t)])

-----------------------------------------------------------------------------
(* SurveyResponse and its JSON text *)

SurveyResponse(id, ticketId, customerId, ease, process, solution, comment, timestamp) ==
    [id |-> id, ticketId |-> ticketId, customerId |-> customerId,
     easeRating |-> ease, processRating |-> process, solutionRating |-> solution,
     comment |-> comment, timestamp |-> timestamp]

\* the characters JSON.stringify writes with a backslash before them
Escaped == {"\"", "\\"}

\* the text of a string between its quotes, as JSON.stringify writes it
RECURSIVE Quote(_)
Quote(s) ==
    IF s = <<>> THEN <<>>
    ELSE (IF Head(s) \in Escaped THEN <<"\\", Head(s)>>
          ELSE IF Head(s) = "\n" THEN <<"\\", "n">>
          ELSE IF Head(s) = "\r" THEN <<"\\", "r">>
          ELSE <<Head(s)>>) \o Quote(Tail(s))

\* a reading of the text that leaves the backslashes in
Unquote_Raw(t) == t

\* the string JSON.parse reads from the text between the quotes
RECURSIVE Unquote(_)
Unquote(t) ==
    IF t = <<>> THEN <<>>
    ELSE IF Head(t) = "\\" THEN
        <<IF t[2] = "n" THEN "\n" ELSE IF t[2] = "r" THEN "\r" ELSE t[2]>>
        \o Unquote(SubSeq(t, 3, Len(t)))
    ELSE <<Head(t)>> \o Unquote(Tail(t))

JString(s) == [t |-> "string", v |-> Quote(s)]
JNumber(n) == [t |-> "number", v |-> NumberText(n)]

\* JSON.stringify of one SurveyResponse: its members, name and value text
StringifyRecord(r) ==
    << <<"id", JString(r.id)>>,
       <<"ticketId", JString(r.ticketId)>>,
       <<"customerId", JString(r.customerId)>>,
       <<"easeRating", JNumber(r.easeRating)>>,
       <<"processRating", JNumber(r.processRating)>>,
       <<"solutionRating", JNumber(r.solutionRating)>>,
       <<"comment", JString(r.comment)>>,
       <<"timestamp", JString(r.timestamp)>> >>

\* JSON.stringify(data) for an array of SurveyResponse
JSONstringify(data) == [i \in 1..Len(data) |-> StringifyRecord(data[i])]

\* where JSON.stringify writes a member; any other text is searched
MemberPlace(name) ==
    CASE name = "id" -> 1 [] name = "ticketId" -> 2 [] name = "customerId" -> 3
      [] name = "easeRating" -> 4 [] name = "processRating" -> 5
      [] name = "solutionRating" -> 6 [] name = "comment" -> 7 [] OTHER -> 8

Member(obj, name) ==
    IF obj[MemberPlace(name)][1] = name THEN obj[MemberPlace(name)][2]
    ELSE obj[CHOOSE i \in 1..Len(obj) : obj[i][1] = name][2]

MemberValue(obj, name) ==
    LET m == Member(obj, name)
    IN  IF m.t = "number" THEN TextNumber(m.v) ELSE Unquote(m.v)

ParseRecord(obj) ==
    [id |-> MemberValue(obj, "id"),
     ticketId |-> MemberValue(obj, "ticketId"),
     customerId |-> MemberValue(obj, "customerId"),
     easeRating |-> MemberValue(obj, "easeRating"),
     processRating |-> MemberValue(obj, "processRating"),
     solutionRating |-> MemberValue(obj, "solutionRating"),
     comment |-> MemberValue(obj, "comment"),
     timestamp |-> MemberValue(obj, "timestamp")]

\* JSON.parse(text) for a text JSON.stringify wrote
JSONparse(text) == [i \in 1..Len(text) |-> ParseRecord(text[i])]

-----------------------------------------------------------------------------
(* localStorage[DB_KEY]: absent (getItem gives null), a JSON text, or a    *)
(* text JSON.parse throws on                                               *)

Absent == [kind |-> "absent", text |-> <<>>]
Corrupt == [kind |-> "corrupt", text |-> <<>>]
Stored(data) == [kind |-> "json", text |-> JSONstringify(data)]

\* the collection the key holds, when it holds one
Persisted(st) == IF st.kind = "json" THEN JSONparse(st.text) ELSE <<>>

-----------------------------------------------------------------------------
(* Seed data.  Customer ids and comments are shortened; a timestamp is the *)
(* number of days before the module was loaded.                            *)

DaysAgo(k) == <<"T", "-">> \o NumberText(k)

\* dbService: SEED_DATA
SEED_DATA_dbService ==
    << SurveyResponse(<<"1">>, <<"1","0","0","1">>, <<"j","o","a","o">>, 4, 5, 5, <<"c","1">>, DaysAgo(5)),
       SurveyResponse(<<"2">>, <<"1","0","2","4">>, <<"m","a","r","i","a">>, 2, 3, 4, <<"c","2">>, DaysAgo(4)),
       SurveyResponse(<<"3">>, <<"1","0","3","5">>, <<"a","d","m","i","n">>, 5, 5, 5, <<"c","3">>, DaysAgo(3)),
       SurveyResponse(<<"4">>, <<"1","0","4","2">>, <<"r","o","b","e","r","t","o">>, 1, 2, 3, <<"c","4">>, DaysAgo(2)),
       SurveyResponse(<<"5">>, <<"1","0","5","5">>, <<"a","n","a">>, 3, 3, 4, <<"c","5">>, DaysAgo(1)),
       SurveyResponse(<<"6">>, <<"1","0","6","8">>, <<"c","a","r","l","o","s">>, 5, 4, 5, <<"c","6">>, DaysAgo(0)),
       SurveyResponse(<<"7">>, <<"1","0","7","2">>, <<"j","u","l","i","a">>, 2, 2, 2, <<"c","7">>, DaysAgo(0)) >>

\* DatabaseService: SEED_DATA
SEED_DATA_database == SubSeq(SEED_DATA_dbService, 1, 3)

SEED_DATA == IF impl \in {"dbSync", "dbAsync"} THEN SEED_DATA_dbService
             ELSE SEED_DATA_database

-----------------------------------------------------------------------------
(* What one store call did: the storage and the remote collection it left, *)
(* what it returned (kind "list": list; "record": list holds the record;   *)
(* "bool": flag) or that it threw, whether getAll wrote SEED_DATA in it,   *)
(* and whether a read, a write or the network failed during it.            *)

Outcome(st, rem, kind, list, flag, threw, seeded, fault) ==
    [st |-> st, rem |-> rem, kind |-> kind, list |-> list, flag |-> flag,
     threw |-> threw, seeded |-> seeded, fault |-> fault]

Returns(st, rem, list, seeded, fault) ==
    Outcome(st, rem, "list", list, FALSE, FALSE, seeded, fault)

ReturnsRecord(st, rem, record, seeded, fault) ==
    Outcome(st, rem, "record", <<record>>, FALSE, FALSE, seeded, fault)

ReturnsFlag(st, rem, flag, seeded, fault) ==
    Outcome(st, rem, "bool", <<>>, flag, FALSE, seeded, fault)

Throws(st, rem, seeded) ==
    Outcome(st, rem, "none", <<>>, FALSE, TRUE, seeded, TRUE)

\* SomeTicket comparing the record's id for its ticketId
SomeTicketById(records, ticketId) ==
    \E i \in 1..Len(records) : records[i].id = Trim(ticketId)

\* allRecords.some(record => record.ticketId === ticketId.trim())

SomeTicket(records, ticketId) ==
    \E i \in 1..Len(records) : records[i].ticketId = Trim(ticketId)

\* currentData.filter(item => item.id !== id)
FilterOutId(records, id) ==
    LET Keep(item) == item.id # id IN SelectSeq(records, Keep)

-----------------------------------------------------------------------------
(* dbService, synchronous variant.  w[1] tells whether the setItem of the  *)
(* seed succeeds, w[2] whether the operation's own setItem does.           *)

dbSync_getAll(st, rem, w) ==
    IF st.kind = "absent" THEN
        IF w[1] THEN Returns(Stored(SEED_DATA), rem, SEED_DATA, TRUE, FALSE)
        ELSE Returns(st, rem, SEED_DATA, FALSE, TRUE)
    ELSE IF st.kind = "json" THEN Returns(st, rem, JSONparse(st.text), FALSE, FALSE)
    ELSE Returns(st, rem, SEED_DATA, FALSE, TRUE)

dbSync_checkTicketExists(st, rem, ticketId, w) ==
    LET all == dbSync_getAll(st, rem, w)
    IN  ReturnsFlag(all.st, rem, SomeTicket(all.list, ticketId), all.seeded, all.fault)

dbSync_add(st, rem, record, w) ==
    LET cur == dbSync_getAll(st, rem, w)
        updatedData == cur.list \o <<record>>
    IN  IF w[2] THEN Returns(Stored(updatedData), rem, updatedData, cur.seeded, cur.fault)
        ELSE Returns(cur.st, rem, updatedData, cur.seeded, TRUE)

dbSync_remove(st, rem, id, w) ==
    LET cur == dbSync_getAll(st, rem, w)
        updatedData == FilterOutId(cur.list, id)
    IN  IF w[2] THEN Returns(Stored(updatedData), rem, updatedData, cur.seeded, cur.fault)
        ELSE Returns(cur.st, rem, updatedData, cur.seeded, TRUE)

dbSync_reset(st, rem, w) ==
    IF w[2] THEN Returns(Stored(SEED_DATA), rem, SEED_DATA, FALSE, FALSE)
    ELSE Throws(st, rem, FALSE)

dbSync_clear(st, rem, w) ==
    IF w[2] THEN Returns(Stored(<<>>), rem, <<>>, FALSE, FALSE)
    ELSE Throws(st, rem, FALSE)

-----------------------------------------------------------------------------
(* dbService, asynchronous variant.  Each operation awaits its delay and   *)
(* then reads and writes localStorage without suspending.                  *)

dbAsync_getAll(st, rem, w) ==
    IF st.kind = "absent" THEN
        IF w[1] THEN Returns(Stored(SEED_DATA), rem, SEED_DATA, TRUE, FALSE)
        ELSE Returns(st, rem, <<>>, FALSE, TRUE)
    ELSE IF st.kind = "json" THEN Returns(st, rem, JSONparse(st.text), FALSE, FALSE)
    ELSE Returns(st, rem, <<>>, FALSE, TRUE)

\* stored ? JSON.parse(stored) : []
dbAsync_read(st) == IF st.kind = "absent" THEN <<>> ELSE JSONparse(st.text)

dbAsync_checkTicketExists(st, rem, ticketId, w) ==
    IF st.kind = "corrupt" THEN Throws(st, rem, FALSE)
    ELSE ReturnsFlag(st, rem, SomeTicket(dbAsync_read(st), ticketId), FALSE, FALSE)

\* add that leaves the collection alone when it holds the ticketId already
dbAsync_add_IfAbsent(st, rem, record, w) ==
    IF ~w[2] \/ st.kind = "corrupt" THEN Throws(st, rem, FALSE)
    ELSE IF \E i \in 1..Len(Persisted(st)) : Persisted(st)[i].ticketId = record.ticketId
    THEN ReturnsRecord(st, rem, record, FALSE, FALSE)
    ELSE ReturnsRecord(Stored(Persisted(st) \o <<record>>), rem, record, FALSE, FALSE)

dbAsync_add(st, rem, record, w) ==
    IF st.kind = "corrupt" \/ ~w[2] THEN Throws(st, rem, FALSE)
    ELSE ReturnsRecord(Stored(dbAsync_read(st) \o <<record>>), rem, record, FALSE, FALSE)

dbAsync_remove(st, rem, id, w) ==
    IF st.kind = "corrupt" \/ ~w[2] THEN Throws(st, rem, FALSE)
    ELSE ReturnsFlag(Stored(FilterOutId(dbAsync_read(st), id)), rem, TRUE, FALSE, FALSE)

dbAsync_clear(st, rem, w) ==
    IF w[2] THEN ReturnsFlag(Stored(<<>>), rem, TRUE, FALSE, FALSE)
    ELSE Throws(st, rem, FALSE)

-----------------------------------------------------------------------------
(* The endpoint behind CONFIG.API_URL.  net is what one fetch meets: "ok", *)
(* "unreachable" (fetch rejects), "status" (response.ok is false),         *)
(* "notJson" (response.json() rejects) or "notArray" (the payload is JSON  *)
(* but no array).                                                          *)

NetOutcomes == {"ok", "unreachable", "status", "notJson", "notArray"}

\* what a POST or a DELETE meets
WriteNetOutcomes == {"ok", "unreachable", "status"}

-----------------------------------------------------------------------------
(* DatabaseService (services/database/index.ts), and the variant shipped   *)
(* with USE_CLOUD_DB: true, whose operations differ only in                *)
(* checkTicketExists.                                                      *)

\* data ? JSON.parse(data) : [], and [] when the read throws
DatabaseService_getLocalData(st) ==
    IF st.kind = "json" THEN JSONparse(st.text) ELSE <<>>

\* getAllLocal without its test of data.length
DatabaseService_getAllLocal_AlwaysSeeds(st, rem, w) ==
    IF w[1] THEN Returns(Stored(SEED_DATA), rem, SEED_DATA, TRUE, st.kind = "corrupt")
    ELSE Throws(st, rem, FALSE)

\* the local branch of getAll, which seeds whenever the collection is empty
DatabaseService_getAllLocal(st, rem, w) ==
    LET data == DatabaseService_getLocalData(st)
    IN  IF Len(data) = 0 THEN
            IF w[1] THEN Returns(Stored(SEED_DATA), rem, SEED_DATA, TRUE, st.kind = "corrupt")
            ELSE Throws(st, rem, FALSE)
        ELSE Returns(st, rem, data, FALSE, FALSE)

DatabaseService_getAll(st, rem, w, net) ==
    IF useCloud THEN
        IF net = "ok" THEN Returns(st, rem, rem, FALSE, FALSE)
        ELSE Returns(st, rem, <<>>, FALSE, TRUE)
    ELSE DatabaseService_getAllLocal(st, rem, w)

DatabaseService_checkTicketExists(st, rem, ticketId, w, net) ==
    LET allData == DatabaseService_getAll(st, rem, w, net)
    IN  IF allData.threw THEN allData
        ELSE ReturnsFlag(allData.st, rem, SomeTicket(allData.list, ticketId),
                         allData.seeded, allData.fault)

\* the cloud variant catches what getAll throws and answers false
Cloud_checkTicketExists(st, rem, ticketId, w, net) ==
    LET allData == DatabaseService_getAll(st, rem, w, net)
    IN  IF allData.threw THEN ReturnsFlag(allData.st, rem, FALSE, FALSE, TRUE)
        ELSE ReturnsFlag(allData.st, rem, SomeTicket(allData.list, ticketId),
                         allData.seeded, allData.fault)

\* addLocal that puts the record in front
DatabaseService_addLocal_Prepends(st, rem, record, w) ==
    IF w[2] THEN ReturnsRecord(Stored(<<record>> \o DatabaseService_getLocalData(st)),
                               rem, record, FALSE, st.kind = "corrupt")
    ELSE Throws(st, rem, FALSE)

DatabaseService_addLocal(st, rem, record, w) ==
    IF w[2] THEN ReturnsRecord(Stored(DatabaseService_getLocalData(st) \o <<record>>),
                               rem, record, FALSE, st.kind = "corrupt")
    ELSE Throws(st, rem, FALSE)

DatabaseService_add(st, rem, record, w, net) ==
    IF useCloud THEN
        IF net = "ok" THEN ReturnsRecord(st, rem \o <<record>>, record, FALSE, FALSE)
        ELSE Throws(st, rem, FALSE)
    ELSE DatabaseService_addLocal(st, rem, record, w)

\* removeLocal that answers whether a record had the id
DatabaseService_removeLocal_TellsMatch(st, rem, id, w) ==
    IF w[2] THEN ReturnsFlag(Stored(FilterOutId(DatabaseService_getLocalData(st), id)), rem,
                             \E i \in 1..Len(DatabaseService_getLocalData(st)) :
                                 DatabaseService_getLocalData(st)[i].id = id,
                             FALSE, st.kind = "corrupt")
    ELSE Throws(st, rem, FALSE)

\* removeLocal that stores the collection as it read it
DatabaseService_removeLocal_KeepsAll(st, rem, id, w) ==
    IF w[2] THEN ReturnsFlag(Stored(DatabaseService_getLocalData(st)), rem, TRUE, FALSE,
                             st.kind = "corrupt")
    ELSE Throws(st, rem, FALSE)

DatabaseService_removeLocal(st, rem, id, w) ==
    IF w[2] THEN ReturnsFlag(Stored(FilterOutId(DatabaseService_getLocalData(st), id)),
                             rem, TRUE, FALSE, st.kind = "corrupt")
    ELSE Throws(st, rem, FALSE)

DatabaseService_remove(st, rem, id, w, net) ==
    IF useCloud THEN
        IF net = "ok" THEN ReturnsFlag(st, FilterOutId(rem, id), TRUE, FALSE, FALSE)
        ELSE ReturnsFlag(st, rem, FALSE, FALSE, TRUE)
    ELSE DatabaseService_removeLocal(st, rem, id, w)

DatabaseService_clear(st, rem, w) ==
    IF useCloud THEN ReturnsFlag(st, rem, FALSE, FALSE, FALSE)
    ELSE IF w[2] THEN ReturnsFlag(Stored(<<>>), rem, TRUE, FALSE, FALSE)
    ELSE Throws(st, rem, FALSE)

-----------------------------------------------------------------------------
(* DatabaseService, the variant that falls back to localStorage: getAll    *)
(* alone looks at the endpoint; add, remove and clear are local.           *)

Fallback_getAll(st, rem, w, net) ==
    IF useCloud THEN
        IF net = "ok" THEN Returns(st, rem, rem, FALSE, FALSE)
        ELSE IF net = "notArray" THEN Returns(st, rem, <<>>, FALSE, TRUE)
        ELSE Returns(st, rem, DatabaseService_getLocalData(st), FALSE, TRUE)
    ELSE DatabaseService_getAllLocal(st, rem, w)

Fallback_checkTicketExists(st, rem, ticketId, w, net) ==
    LET allData == Fallback_getAll(st, rem, w, net)
    IN  IF allData.threw THEN allData
        ELSE ReturnsFlag(allData.st, rem, SomeTicket(allData.list, ticketId),
                         allData.seeded, allData.fault)

Fallback_add(st, rem, record, w) == DatabaseService_addLocal(st, rem, record, w)

\* remove catches a failed write and answers false
Fallback_remove(st, rem, id, w) ==
    IF w[2] THEN DatabaseService_removeLocal(st, rem, id, w)
    ELSE ReturnsFlag(st, rem, FALSE, FALSE, TRUE)

Fallback_clear(st, rem, w) ==
    IF w[2] THEN ReturnsFlag(Stored(<<>>), rem, TRUE, FALSE, FALSE)
    ELSE Throws(st, rem, FALSE)

-----------------------------------------------------------------------------
(* The deployed variant's operations *)

Impls == {"dbSync", "dbAsync", "database", "cloud", "fallback"}

\* the variants that keep the collection in localStorage under their configuration
IsLocal == impl \in {"dbSync", "dbAsync"} \/ (impl \in {"database", "fallback"} /\ ~useCloud)

getAll(w, net) ==
    CASE impl = "dbSync" -> dbSync_getAll(storage, remote, w)
      [] impl = "dbAsync" -> dbAsync_getAll(storage, remote, w)
      [] impl = "fallback" -> Fallback_getAll(storage, remote, w, net)
      [] OTHER -> DatabaseService_getAll(storage, remote, w, net)

checkTicketExists(ticketId, w, net) ==
    CASE impl = "dbSync" -> dbSync_checkTicketExists(storage, remote, ticketId, w)
      [] impl = "dbAsync" -> dbAsync_checkTicketExists(storage, remote, ticketId, w)
      [] impl = "fallback" -> Fallback_checkTicketExists(storage, remote, ticketId, w, net)
      [] impl = "cloud" -> Cloud_checkTicketExists(storage, remote, ticketId, w, net)
      [] OTHER -> DatabaseService_checkTicketExists(storage, remote, ticketId, w, net)

add(record, w, net) ==
    CASE impl = "dbSync" -> dbSync_add(storage, remote, record, w)
      [] impl = "dbAsync" -> dbAsync_add(storage, remote, record, w)
      [] impl = "fallback" -> Fallback_add(storage, remote, record, w)
      [] OTHER -> DatabaseService_add(storage, remote, record, w, net)

remove(id, w, net) ==
    CASE impl = "dbSync" -> dbSync_remove(storage, remote, id, w)
      [] impl = "dbAsync" -> dbAsync_remove(storage, remote, id, w)
      [] impl = "fallback" -> Fallback_remove(storage, remote, id, w)
      [] OTHER -> DatabaseService_remove(storage, remote, id, w, net)

clear(w) ==
    CASE impl = "dbSync" -> dbSync_clear(storage, remote, w)
      [] impl = "dbAsync" -> dbAsync_clear(storage, remote, w)
      [] impl = "fallback" -> Fallback_clear(storage, remote, w)
      [] OTHER -> DatabaseService_clear(storage, remote, w)

\* the collection of the backend getAll reads
Backing == IF useCloud THEN remote ELSE Persisted(storage)

-----------------------------------------------------------------------------
(* Inputs *)

\* whether the seed's setItem and the operation's own setItem succeed
Writes == {<<TRUE, TRUE>>, <<TRUE, FALSE>>, <<FALSE, TRUE>>, <<FALSE, FALSE>>}

OwnWrite == {<<TRUE, TRUE>>, <<TRUE, FALSE>>}

\* the seed's setItem is reached only by getAll with no record under the key
MaySeed ==
    /\ ~useCloud
    /\ IF impl \in {"dbSync", "dbAsync"} THEN storage.kind = "absent"
       ELSE storage.kind # "json" \/ Len(storage.text) = 0

\* the members of Writes that differ in a setItem the operation reaches
WritesOf(callsGetAll, writes) ==
    { w \in Writes :
        /\ (~(callsGetAll /\ MaySeed)) => w[1]
        /\ (~(writes /\ (~useCloud \/ impl = "fallback"))) => w[2] }

\* Math.random().toString(36).substr(2, 9): two of its values; a value may be
\* drawn again, and none is the id of a seed record
GenIds == {<<"a">>, <<"b">>}

\* ids asked to be removed: a seed's, a generated one, one never stored
RemoveIds == {<<"1">>, <<"a">>, <<"z">>}

T1001 == <<"1","0","0","1">>
T77 == <<"7","7">>

\* ticketId and ratings of the records callers add
AddInputs ==
    { [ticketId |-> T1001, ratings |-> <<4, 5, 5>>],
      [ticketId |-> T77, ratings |-> <<2, 3, 4>>] }

\* new Date().toISOString() at the call
Now == <<"T", "+", "0">>

NewRecords ==
    { SurveyResponse(id, a.ticketId, <<"c">>, a.ratings[1], a.ratings[2], a.ratings[3], <<>>, Now)
        : id \in GenIds, a \in AddInputs }

\* ticket ids asked about
TicketQueries ==
    { T1001, <<" ">> \o T1001 \o <<" ">>, T77 \o <<"\t">>, <<"9","9","9","9">>, <<" ">> }

SeedSet == Range(SEED_DATA_dbService)

NotSeed(records) == Cardinality({i \in 1..Len(records) : records[i] \notin SeedSet})

\* the bound on a collection's growth
MayGrow == NotSeed(Persisted(storage)) < MaxInserted /\ NotSeed(remote) < MaxInserted

-----------------------------------------------------------------------------
(* The store's operations as steps *)

\* the Dashboard before any analysis: useState(null), useState(false)
NoAnalysis == [json |-> "null"]

\* no call issued yet
NoCalls == [issued |-> 0, pending |-> {}, added |-> {}, removed |-> {}]

NoDashboard ==
    [service |-> "geminiService", apiKey |-> TRUE, analysis |-> NoAnalysis,
     loadingAnalysis |-> FALSE, pending |-> FALSE, searchTerm |-> <<>>]

NoCall ==
    [op |-> "none", id |-> <<>>, ticketId |-> <<>>, record |-> <<>>, net |-> "ok",
     kind |-> "none", list |-> <<>>, flag |-> FALSE, threw |-> FALSE,
     seeded |-> FALSE, fault |-> FALSE, password |-> ""]

Call(op, id, ticketId, record, net, out) ==
    [op |-> op, id |-> id, ticketId |-> ticketId, record |-> record, net |-> net,
     kind |-> out.kind, list |-> out.list, flag |-> out.flag, threw |-> out.threw,
     seeded |-> out.seeded, fault |-> out.fault, password |-> ""]

Bump(n) == IF n < MaxSeedWrites THEN n + 1 ELSE n

\* the step of one call; result is evaluated once
Apply(op, id, ticketId, record, net, result) ==
    \E out \in {result} :
        /\ storage' = out.st
        /\ remote' = out.rem
        /\ last' = Call(op, id, ticketId, record, net, out)
        /\ seedWrites' = IF out.seeded THEN Bump(seedWrites) ELSE seedWrites
        /\ UNCHANGED <<impl, useCloud>>

\* the endpoint is met only under USE_CLOUD_DB (the fallback variant: by getAll only)
NetFor(outcomes) == IF useCloud THEN outcomes ELSE {"ok"}

GetAll ==
    /\ \E w \in WritesOf(TRUE, FALSE), net \in NetFor(NetOutcomes) :
          Apply("getAll", <<>>, <<>>, <<>>, net, getAll(w, net))
    /\ UNCHANGED <<surveyData, app, form, tabs, dashboard, calls>>

CheckTicketExists ==
    /\ \E ticketId \in TicketQueries, w \in WritesOf(impl # "dbAsync", FALSE),
          net \in NetFor(NetOutcomes) :
          Apply("checkTicketExists", <<>>, ticketId, <<>>, net,
                checkTicketExists(ticketId, w, net))
    /\ UNCHANGED <<surveyData, app, form, tabs, dashboard, calls>>

Add ==
    /\ MayGrow
    /\ \E record \in NewRecords, w \in WritesOf(impl = "dbSync", TRUE),
          net \in NetFor(WriteNetOutcomes) :
          Apply("add", record.id, <<>>, <<record>>, net, add(record, w, net))
    /\ UNCHANGED <<surveyData, app, form, tabs, dashboard, calls>>

\* the records of the active backend that remove(id) is to take away
Matching(id) == LET Hit(item) == item.id = id IN SelectSeq(Backing, Hit)

Remove ==
    /\ \E id \in RemoveIds, w \in WritesOf(impl = "dbSync", TRUE),
          net \in NetFor(WriteNetOutcomes) :
          Apply("remove", id, <<>>, Matching(id), net, remove(id, w, net))
    /\ UNCHANGED <<surveyData, app, form, tabs, dashboard, calls>>

Clear ==
    /\ \E w \in WritesOf(FALSE, TRUE) :
          Apply("clear", <<>>, <<>>, <<>>, "ok", clear(w))
    /\ UNCHANGED <<surveyData, app, form, tabs, dashboard, calls>>

\* dbService.reset exists in the synchronous variant only
Reset ==
    /\ impl = "dbSync"
    /\ \E w \in OwnWrite :
          Apply("reset", <<>>, <<>>, <<>>, "ok", dbSync_reset(storage, remote, w))
    /\ UNCHANGED <<surveyData, app, form, tabs, dashboard, calls>>

\* the environment leaves a text under the key that JSON.parse rejects
CorruptStorage ==
    /\ storage.kind = "json"
    /\ storage' = Corrupt
    /\ last' = NoCall
    /\ UNCHANGED <<impl, useCloud, remote, seedWrites, surveyData, app, form, tabs, dashboard, calls>>

\* SurveyForm: useState('') for ticketError, useState(false) for submitted
NoForm == [ticketError |-> "", submitted |-> FALSE]

\* App: the state of the first render, before the mount effect
NoApp ==
    [mounted |-> FALSE, currentView |-> "SURVEY", isAuthenticated |-> FALSE,
     showLoginModal |-> FALSE, showClearDataModal |-> FALSE]

Configs ==
    { <<"dbSync", FALSE>>, <<"dbAsync", FALSE>>, <<"database", FALSE>>,
      <<"database", TRUE>>, <<"cloud", TRUE>>, <<"fallback", TRUE>> }

Init ==
    /\ \E c \in Configs : impl = c[1] /\ useCloud = c[2]
    /\ storage = Absent
    /\ remote = <<>>
    /\ last = NoCall
    /\ seedWrites = 0
    /\ surveyData = <<>>
    /\ app = NoApp
    /\ form = NoForm
    /\ tabs = <<>>
    /\ dashboard = NoDashboard
    /\ calls = NoCalls

Next ==
    \/ GetAll
    \/ CheckTicketExists
    \/ Add
    \/ Remove
    \/ Clear
    \/ Reset
    \/ CorruptStorage

Spec == Init /\ [][Next]_vars

-----------------------------------------------------------------------------
(* The synchronous App (App.tsx) with its SurveyForm, over the synchronous *)
(* dbService.  A handler runs to completion; what the user typed into the  *)
(* form is the handler's input.                                            *)

\* handleTicketChange admits digits only
FormTickets == {<<>>, T1001, T77, <<"0">> \o T77}

\* what the form holds when it is submitted: ticketId, customerId and the three
\* star groups (0 is a group never clicked)
FormInputs ==
    { [ticketId |-> <<>>, customerId |-> <<"c">>, ratings |-> <<4, 5, 5>>],
      [ticketId |-> T77, customerId |-> <<" ">>, ratings |-> <<4, 5, 5>>],
      [ticketId |-> T77, customerId |-> <<"c">>, ratings |-> <<4, 0, 5>>],
      [ticketId |-> T77, customerId |-> <<"c">>, ratings |-> <<0, 1, 5>>],
      [ticketId |-> T77, customerId |-> <<"c">>, ratings |-> <<5, 2, 0>>] }
    \cup { [ticketId |-> t, customerId |-> <<"c">>, ratings |-> <<4, 5, 3>>]
             : t \in FormTickets \ {<<>>} }

Passwords == {"Service123", "Alterar123", "wrong"}

NoOutcome == Outcome(storage, remote, "none", <<>>, FALSE, FALSE, FALSE, FALSE)

\* the part of a handler's step that is the store's
Store(op, id, ticketId, record, out) ==
    /\ storage' = out.st
    /\ remote' = out.rem
    /\ last' = Call(op, id, ticketId, record, "ok", out)
    /\ seedWrites' = IF out.seeded THEN Bump(seedWrites) ELSE seedWrites
    /\ UNCHANGED <<impl, useCloud, tabs, dashboard, calls>>

\* a handler that calls no store operation
NoStore ==
    /\ last' = NoCall
    /\ UNCHANGED <<impl, useCloud, storage, remote, seedWrites, tabs, dashboard, calls>>

\* a handler given a password: its store call, if it made one, and the password
WithPassword(op, password, out) ==
    /\ storage' = out.st
    /\ remote' = out.rem
    /\ last' = [Call(op, <<>>, <<>>, <<>>, "ok", out) EXCEPT !.password = password]
    /\ seedWrites' = IF out.seeded THEN Bump(seedWrites) ELSE seedWrites
    /\ UNCHANGED <<impl, useCloud, tabs, dashboard, calls>>

\* password === 'Alterar123', the test of handleClearDataConfirm with the
\* password of handleLogin
IsClearPassword_Login(password) == password = "Alterar123"

\* a test of the login password that every text passes
IsLoginPassword_Any(password) == TRUE

\* password === 'Alterar123'
IsLoginPassword(password) == password = "Alterar123"

\* password === 'Service123'
IsClearPassword(password) == password = "Service123"

NoModal == ~app.showLoginModal /\ ~app.showClearDataModal

OnSurvey == app.mounted /\ NoModal /\ app.currentView = "SURVEY"

OnDashboard ==
    app.mounted /\ NoModal /\ app.currentView = "DASHBOARD" /\ app.isAuthenticated

\* useEffect(() => { setSurveyData(dbService.getAll()) }, [])
AppMount ==
    /\ ~app.mounted
    /\ \E w \in WritesOf(TRUE, FALSE) :
        \E out \in {dbSync_getAll(storage, remote, w)} :
            /\ Store("mount", <<>>, <<>>, <<>>, out)
            /\ surveyData' = out.list
    /\ app' = [app EXCEPT !.mounted = TRUE]
    /\ UNCHANGED form

\* the page is loaded again: every useState starts over
Reload ==
    /\ app.mounted
    /\ app' = NoApp
    /\ form' = NoForm
    /\ surveyData' = <<>>
    /\ NoStore

\* SurveyForm.handleTicketChange: typing clears the error
HandleTicketChange ==
    /\ OnSurvey /\ ~form.submitted
    /\ form.ticketError # ""
    /\ form' = [form EXCEPT !.ticketError = ""]
    /\ NoStore
    /\ UNCHANGED <<surveyData, app>>

\* SurveyForm.handleTicketBlur
HandleTicketBlur ==
    /\ OnSurvey /\ ~form.submitted
    /\ \E ticketId \in FormTickets, w \in WritesOf(TRUE, FALSE) :
        /\ Trim(ticketId) # <<>>
        /\ \E exists \in {dbSync_checkTicketExists(storage, remote, ticketId, w)} :
            /\ Store("handleTicketBlur", <<>>, ticketId, <<>>, exists)
            /\ form' = IF exists.flag THEN [form EXCEPT !.ticketError = "evaluated"]
                       ELSE form
    /\ UNCHANGED <<surveyData, app>>

\* the record App.handleSurveySubmit builds from what the form passes
fullResponse(ticketId, customerId, ratings, id) ==
    SurveyResponse(id, ticketId, customerId, ratings[1], ratings[2], ratings[3], <<>>, Now)

\* a test of the star groups that looks at the first group only
Unrated_FirstOnly(ratings) == ratings[1] = 0

\* easeRating === 0 || processRating === 0 || solutionRating === 0
Unrated(ratings) == 0 \in Range(ratings)

\* SurveyForm.handleSubmit, and App.handleSurveySubmit when it is reached
HandleSubmit ==
    /\ OnSurvey /\ ~form.submitted
    /\ \E filled \in FormInputs :
        LET ticketId == filled.ticketId
            customerId == filled.customerId
            ratings == filled.ratings
        IN
        IF Trim(ticketId) = <<>> THEN
            /\ form' = [form EXCEPT !.ticketError = "required"]
            /\ Store("handleSubmit", <<>>, ticketId, <<>>, NoOutcome)
            /\ UNCHANGED surveyData
        ELSE IF Trim(customerId) = <<>> \/ Unrated(ratings) THEN
            /\ form' = [form EXCEPT !.ticketError = ""]
            /\ Store("handleSubmit", <<>>, ticketId, <<>>, NoOutcome)
            /\ UNCHANGED surveyData
        ELSE \E wc \in WritesOf(TRUE, FALSE) :
            \E exists \in {dbSync_checkTicketExists(storage, remote, ticketId, wc)} :
                IF exists.flag THEN
                    /\ form' = [form EXCEPT !.ticketError = "answered"]
                    /\ Store("handleSubmit", <<>>, ticketId, <<>>, exists)
                    /\ UNCHANGED surveyData
                ELSE
                    /\ NotSeed(Persisted(exists.st)) < MaxInserted
                    /\ \E id \in GenIds, wa \in {w \in Writes : exists.st.kind # "absent" => w[1]} :
                        \E updatedList \in
                            {dbSync_add(exists.st, remote,
                                        fullResponse(ticketId, customerId, ratings, id), wa)} :
                            /\ Store("handleSubmit", id, ticketId,
                                     <<fullResponse(ticketId, customerId, ratings, id)>>,
                                     [updatedList EXCEPT
                                        !.seeded = exists.seeded \/ updatedList.seeded,
                                        !.fault = exists.fault \/ updatedList.fault])
                            /\ surveyData' = updatedList.list
                            /\ form' = [ticketError |-> "", submitted |-> TRUE]
    /\ UNCHANGED app

\* "Avaliar outro chamado"
EvaluateAnother ==
    /\ OnSurvey /\ form.submitted
    /\ form' = NoForm
    /\ NoStore
    /\ UNCHANGED <<surveyData, app>>

\* the navigation button "Nova Pesquisa"; leaving the survey view unmounts the form
ShowSurvey ==
    /\ app.mounted /\ NoModal
    /\ app.currentView = "DASHBOARD"
    /\ app' = [app EXCEPT !.currentView = "SURVEY"]
    /\ form' = NoForm
    /\ NoStore
    /\ UNCHANGED surveyData

HandleDashboardClick ==
    /\ app.mounted /\ NoModal
    /\ app.currentView = "SURVEY"
    /\ app' = IF app.isAuthenticated THEN [app EXCEPT !.currentView = "DASHBOARD"]
              ELSE [app EXCEPT !.showLoginModal = TRUE]
    /\ NoStore
    /\ UNCHANGED <<surveyData, form>>

HandleLogin ==
    /\ app.showLoginModal
    /\ \E password \in Passwords :
        /\ app' = IF IsLoginPassword(password)
                  THEN [app EXCEPT !.isAuthenticated = TRUE, !.showLoginModal = FALSE,
                                   !.currentView = "DASHBOARD"]
                  ELSE app
        /\ WithPassword("handleLogin", password, NoOutcome)
    /\ UNCHANGED <<surveyData, form>>

\* onClose of either modal
CloseModal ==
    /\ ~NoModal
    /\ app' = [app EXCEPT !.showLoginModal = FALSE, !.showClearDataModal = FALSE]
    /\ NoStore
    /\ UNCHANGED <<surveyData, form>>

HandleResetDatabaseClick ==
    /\ OnDashboard
    /\ app' = [app EXCEPT !.showClearDataModal = TRUE]
    /\ NoStore
    /\ UNCHANGED <<surveyData, form>>

HandleClearDataConfirm ==
    /\ app.showClearDataModal
    /\ \E password \in Passwords, w \in OwnWrite :
        IF IsClearPassword(password) THEN
            \E emptyData \in {dbSync_clear(storage, remote, w)} :
                /\ WithPassword("handleClearDataConfirm", password, emptyData)
                /\ IF emptyData.threw THEN UNCHANGED <<surveyData, app>>
                   ELSE /\ surveyData' = emptyData.list
                        /\ app' = [app EXCEPT !.showClearDataModal = FALSE]
        ELSE /\ WithPassword("handleClearDataConfirm", password, NoOutcome)
             /\ UNCHANGED <<surveyData, app>>
    /\ UNCHANGED form

HandleDeleteResponse ==
    /\ OnDashboard
    /\ \E id \in RemoveIds \cap {surveyData[i].id : i \in 1..Len(surveyData)},
          w \in WritesOf(TRUE, TRUE) :
        /\ Store("handleDeleteResponse", id, <<>>, <<>>,
                 dbSync_remove(storage, remote, id, w))
        /\ surveyData' = FilterOutId(surveyData, id)
    /\ UNCHANGED <<app, form>>

InitApp ==
    /\ impl = "dbSync" /\ useCloud = FALSE
    /\ storage = Absent
    /\ remote = <<>>
    /\ last = NoCall
    /\ seedWrites = 0
    /\ surveyData = <<>>
    /\ app = NoApp
    /\ form = NoForm
    /\ tabs = <<>>
    /\ dashboard = NoDashboard
    /\ calls = NoCalls

NextApp ==
    \/ AppMount
    \/ Reload
    \/ HandleTicketChange
    \/ HandleTicketBlur
    \/ HandleSubmit
    \/ EvaluateAnother
    \/ ShowSurvey
    \/ HandleDashboardClick
    \/ HandleLogin
    \/ CloseModal
    \/ HandleResetDatabaseClick
    \/ HandleClearDataConfirm
    \/ HandleDeleteResponse
    \/ CorruptStorage

SpecApp == InitApp /\ [][NextApp]_vars

-----------------------------------------------------------------------------
(* The asynchronous App, in as many browser tabs as Tabs, over a data      *)
(* service whose methods return promises.  A handler runs up to its await; *)
(* the awaited call and the handler's continuation are one later step, so  *)
(* the steps of the tabs, and of the calls pending in one tab, interleave. *)

Tabs == {1, 2}

\* a call a handler awaits, with what the continuation closes over
\* left: the tenths of a second until the call's timer runs out; ahead: the
\* calls with the same timer that were issued in the same tenth, before it
Pending(op, filled, record, originalData) ==
    [op |-> op, filled |-> filled, record |-> record, originalData |-> originalData,
     left |-> 0, ahead |-> 0]

\* the setTimeout a local operation awaits before it reads or writes
\* localStorage, in tenths of a second; a request to the endpoint has no
\* timer and settles at any time
Delay(op) ==
    IF useCloud THEN 0
    ELSE IF impl = "dbAsync"
    THEN CASE op = "getAll" -> 8 [] op = "validate" -> 3 [] op = "add" -> 10
           [] op = "remove" -> 6 [] OTHER -> 10
    ELSE CASE op = "getAll" -> 6 [] op = "validate" -> 6 [] op = "add" -> 8
           [] op = "remove" -> 5 [] OTHER -> 10

\* the calls whose timer was set to the same delay in the same tenth
SameTimer(pending, p) ==
    {q \in pending : ~useCloud /\ q.left = p.left /\ Delay(q.op) = Delay(p.op)}

\* a call is issued
Awaiting(pending, p) ==
    LET issued == [p EXCEPT !.left = Delay(p.op)]
    IN  pending \cup {[issued EXCEPT !.ahead = Cardinality(SameTimer(pending, issued))]}

\* a call has settled
Settled(pending, p) ==
    {IF q \in SameTimer(pending, p) THEN [q EXCEPT !.ahead = @ - 1] ELSE q
        : q \in pending \ {p}}

\* the calls of a handler whose timer has run out, in the order of the timers
Due(t, op) == {q \in t.pending : q.op = op /\ q.left = 0 /\ q.ahead = 0}

NoFill == [ticketId |-> <<>>, customerId |-> <<>>, ratings |-> <<0, 0, 0>>]

\* the first render: isAppLoading starts true and the mount effect calls fetchData
NoTab ==
    [surveyData |-> <<>>, isAppLoading |-> TRUE, isProcessing |-> FALSE,
     ticketError |-> "", submitted |-> FALSE,
     pending |-> Awaiting({}, Pending("getAll", NoFill, <<>>, <<>>))]

\* a tab that is not open: nothing is rendered and nothing is pending
ClosedTab == [NoTab EXCEPT !.pending = {}]

\* neither the loading screen nor the "Processando" overlay covers the page
Interactive(t) == ~t.isAppLoading /\ ~t.isProcessing

\* the calls a tab awaits at a time
MaxPending == 2

\* a tab awaits one call of a handler at a time
MayAwait(t, op) ==
    /\ \A p \in t.pending : p.op # op
    /\ Cardinality(t.pending) < MaxPending

\* the adds the tabs are awaiting
PendingAdds ==
    Cardinality(UNION { { <<c, p>> : p \in {q \in tabs[c].pending : q.op = "add"} }
                          : c \in Tabs })

\* the bound on the growth of the collection and of a tab's displayed list
AsyncMayGrow(c) ==
    /\ NotSeed(Backing) + PendingAdds < MaxInserted
    /\ NotSeed(tabs[c].surveyData) + PendingAdds < MaxInserted

\* the other tabs stay as they are
OnlyTab(c, t) == tabs' = [tabs EXCEPT ![c] = t]

\* what a request of a tab meets at the endpoint
AsyncNet == IF useCloud THEN {"ok", "unreachable"} ELSE {"ok"}

\* a step of a tab that calls no store operation
AsyncQuiet ==
    /\ last' = NoCall
    /\ UNCHANGED <<impl, useCloud, storage, remote, seedWrites>>

\* a tenth of a second passes; a timer that has run out is served first
Tick ==
    /\ \E c \in Tabs : tabs[c].pending # {}
    /\ \A c \in Tabs : \A p \in tabs[c].pending : p.left > 0
    /\ tabs' = [c \in Tabs |->
                  [tabs[c] EXCEPT !.pending = {[p EXCEPT !.left = @ - 1] : p \in @}]]
    /\ AsyncQuiet
    /\ UNCHANGED <<surveyData, app, form, dashboard, calls>>

\* fetchData, once dbService.getAll() has settled
FetchDataDone ==
    \E c \in Tabs :
        \E p \in Due(tabs[c], "getAll"),
           w \in WritesOf(TRUE, FALSE), net \in AsyncNet :
            \E data \in {getAll(w, net)} :
                /\ Apply("fetchData", <<>>, <<>>, <<>>, net, data)
                /\ OnlyTab(c, [tabs[c] EXCEPT
                        !.surveyData = IF data.threw THEN @ ELSE data.list,
                        !.isAppLoading = FALSE,
                        !.pending = Settled(@, p)])
    /\ UNCHANGED <<surveyData, app, form, dashboard, calls>>

\* handleRefreshData: fetchData again; the loading screen replaces the page
HandleRefreshData ==
    \E c \in Tabs :
        /\ Interactive(tabs[c]) /\ MayAwait(tabs[c], "getAll")
        /\ OnlyTab(c, [tabs[c] EXCEPT
                !.isAppLoading = TRUE,
                !.ticketError = "", !.submitted = FALSE,
                !.pending = Awaiting(@, Pending("getAll", NoFill, <<>>, <<>>))])
    /\ AsyncQuiet
    /\ UNCHANGED <<surveyData, app, form, dashboard, calls>>

\* what the form of a tab holds when it is submitted
AsyncFormInputs ==
    { [ticketId |-> T77, customerId |-> <<"c">>, ratings |-> <<4, 0, 5>>],
      [ticketId |-> T77, customerId |-> <<"c">>, ratings |-> <<4, 5, 3>>] }

\* SurveyForm.handleSubmit up to the duplicate check, which is awaited
SubmitForm ==
    \E c \in Tabs, filled \in AsyncFormInputs :
        /\ Interactive(tabs[c]) /\ ~tabs[c].submitted
        /\ IF Trim(filled.ticketId) = <<>> THEN
               OnlyTab(c, [tabs[c] EXCEPT !.ticketError = "required"])
           ELSE IF Trim(filled.customerId) = <<>> \/ 0 \in Range(filled.ratings) THEN
               OnlyTab(c, [tabs[c] EXCEPT !.ticketError = ""])
           ELSE
               /\ MayAwait(tabs[c], "validate")
               /\ OnlyTab(c, [tabs[c] EXCEPT
                       !.ticketError = "",
                       !.pending = Awaiting(@, Pending("validate", filled, <<>>, <<>>))])
    /\ AsyncQuiet
    /\ UNCHANGED <<surveyData, app, form, dashboard, calls>>

\* handleValidateTicket settles; the form refuses the ticket or calls onSubmit,
\* and handleSurveySubmit runs up to its await of dbService.add
ValidateDone ==
    \E c \in Tabs :
        \E p \in Due(tabs[c], "validate"),
           w \in WritesOf(impl # "dbAsync", FALSE), net \in AsyncNet :
            \E exists \in {checkTicketExists(p.filled.ticketId, w, net)} :
                /\ Apply("validate", <<>>, p.filled.ticketId, <<>>, net, exists)
                /\ IF exists.threw THEN
                       OnlyTab(c, [tabs[c] EXCEPT !.pending = Settled(@, p)])
                   ELSE IF exists.flag THEN
                       OnlyTab(c, [tabs[c] EXCEPT
                           !.ticketError = "answered", !.pending = Settled(@, p)])
                   ELSE
                       /\ AsyncMayGrow(c)
                       /\ \E id \in GenIds :
                           OnlyTab(c, [tabs[c] EXCEPT
                               !.isProcessing = TRUE,
                               !.submitted = TRUE,
                               !.pending = Awaiting(Settled(@, p),
                                   Pending("add", p.filled,
                                       <<fullResponse(p.filled.ticketId, p.filled.customerId,
                                                      p.filled.ratings, id)>>, <<>>))])
    /\ UNCHANGED <<surveyData, app, form, dashboard, calls>>

\* setIsProcessing(false) as the last statement of the try
finally_setIsProcessing_InTry(isProcessing, threw) == IF threw THEN isProcessing ELSE FALSE

\* finally { setIsProcessing(false) } of handleSurveySubmit and handleClearDataConfirm
finally_setIsProcessing(isProcessing, threw) == FALSE

\* handleSurveySubmit, once dbService.add(fullResponse) has settled
AddDone ==
    \E c \in Tabs :
        \E p \in Due(tabs[c], "add"),
           w \in WritesOf(FALSE, TRUE), net \in AsyncNet :
            \E saved \in {add(p.record[1], w, net)} :
                /\ NotSeed(tabs[c].surveyData) < MaxInserted
                /\ Apply("handleSurveySubmit", p.record[1].id, p.filled.ticketId,
                         p.record, net, saved)
                /\ OnlyTab(c, [tabs[c] EXCEPT
                        !.surveyData = IF saved.threw THEN @ ELSE @ \o p.record,
                        !.isProcessing = finally_setIsProcessing(@, saved.threw),
                        !.pending = Settled(@, p)])
    /\ UNCHANGED <<surveyData, app, form, dashboard, calls>>

\* handleDeleteResponse up to its await: the row leaves the list at once; the
\* rows the user deletes are those with an id of RemoveIds or GenIds
DeleteStart ==
    \E c \in Tabs :
        /\ Interactive(tabs[c])
        /\ Cardinality(tabs[c].pending) < MaxPending
        /\ \E i \in 1..Len(tabs[c].surveyData) :
            /\ tabs[c].surveyData[i].id \in RemoveIds \cup GenIds
            /\ OnlyTab(c, [tabs[c] EXCEPT
                !.surveyData = FilterOutId(@, tabs[c].surveyData[i].id),
                !.pending = Awaiting(@, Pending("remove", NoFill,
                                         <<tabs[c].surveyData[i]>>, tabs[c].surveyData))])
    /\ AsyncQuiet
    /\ UNCHANGED <<surveyData, app, form, dashboard, calls>>

\* handleDeleteResponse, once dbService.remove(id) has settled: the list is
\* put back only when the call threw
DeleteDone ==
    \E c \in Tabs :
        \E p \in Due(tabs[c], "remove"),
           w \in WritesOf(FALSE, TRUE), net \in AsyncNet :
            \E removed \in {remove(p.record[1].id, w, net)} :
                /\ Apply("handleDeleteResponse", p.record[1].id, <<>>, p.record, net, removed)
                /\ OnlyTab(c, [tabs[c] EXCEPT
                        !.surveyData = IF removed.threw THEN p.originalData ELSE @,
                        !.pending = Settled(@, p)])
    /\ UNCHANGED <<surveyData, app, form, dashboard, calls>>

\* handleClearDataConfirm up to its await
ClearStart ==
    \E c \in Tabs, password \in Passwords :
        /\ Interactive(tabs[c]) /\ MayAwait(tabs[c], "clear")
        /\ IF password = "Service123" THEN
               OnlyTab(c, [tabs[c] EXCEPT
                   !.isProcessing = TRUE,
                   !.pending = Awaiting(@, Pending("clear", NoFill, <<>>, <<>>))])
           ELSE UNCHANGED tabs
    /\ AsyncQuiet
    /\ UNCHANGED <<surveyData, app, form, dashboard, calls>>

\* handleClearDataConfirm, once dbService.clear() has settled: whatever the
\* call returned, the list is emptied unless it threw
ClearDone ==
    \E c \in Tabs :
        \E p \in Due(tabs[c], "clear"),
           w \in WritesOf(FALSE, TRUE) :
            \E cleared \in {clear(w)} :
                /\ Apply("handleClearDataConfirm", <<>>, <<>>, <<>>, "ok", cleared)
                /\ OnlyTab(c, [tabs[c] EXCEPT
                        !.surveyData = IF cleared.threw THEN @ ELSE <<>>,
                        !.isProcessing = finally_setIsProcessing(@, cleared.threw),
                        !.pending = Settled(@, p)])
    /\ UNCHANGED <<surveyData, app, form, dashboard, calls>>

\* the services whose methods return promises
AsyncConfigs == {<<"dbAsync", FALSE>>, <<"database", TRUE>>}

InitAsync ==
    /\ \E c \in AsyncConfigs : impl = c[1] /\ useCloud = c[2]
    /\ storage = Absent
    /\ remote = <<>>
    /\ last = NoCall
    /\ seedWrites = 0
    /\ surveyData = <<>>
    /\ app = NoApp
    /\ form = NoForm
    /\ tabs = [c \in Tabs |-> IF c = 1 THEN NoTab ELSE ClosedTab]
    /\ dashboard = NoDashboard
    /\ calls = NoCalls

NextAsync ==
    \/ Tick
    \/ FetchDataDone
    \/ HandleRefreshData
    \/ SubmitForm
    \/ ValidateDone
    \/ AddDone
    \/ DeleteStart
    \/ DeleteDone
    \/ ClearStart
    \/ ClearDone

SpecAsync == InitAsync /\ [][NextAsync]_vars

\* two tabs over one localStorage, each used to submit the form
InitRace ==
    /\ impl = "dbAsync" /\ useCloud = FALSE
    /\ storage = Absent
    /\ remote = <<>>
    /\ last = NoCall
    /\ seedWrites = 0
    /\ surveyData = <<>>
    /\ app = NoApp
    /\ form = NoForm
    /\ tabs = [c \in Tabs |-> NoTab]
    /\ dashboard = NoDashboard
    /\ calls = NoCalls

NextRace ==
    \/ Tick
    \/ FetchDataDone
    \/ SubmitForm
    \/ ValidateDone
    \/ AddDone

SpecRace == InitRace /\ [][NextRace]_vars

-----------------------------------------------------------------------------
(* Properties *)

TicketIn(records, ticketId) ==
    \E i \in 1..Len(records) : records[i].ticketId = ticketId

IdIn(records, id) == \E i \in 1..Len(records) : records[i].id = id

\* the call last records returned normally and, where it answers a flag, with true
Succeeded(call) == ~call.threw /\ (call.kind = "bool" => call.flag)

NoDuplicateTicket(records) ==
    \A i, j \in 1..Len(records) : records[i].ticketId = records[j].ticketId => i = j

\* a submission of the form whose ticket the persisted collection already holds
DuplicateSubmission ==
    /\ last'.op = "handleSubmit"
    /\ TicketIn(Persisted(storage), Trim(last'.ticketId))

\* C1: through the intake form of the synchronous App, the persisted
\* collection never holds two records with one ticketId, and a submission
\* whose ticketId a stored record already has never reaches onSubmit or
\* dbService.add: storage and the displayed list stay as they were, the
\* form is not submitted, and a submission that passed the field checks
\* is refused by the duplicate check with the "already answered" error.
C1_DuplicateGuard ==
    /\ [](NoDuplicateTicket(Persisted(storage)))
    /\ [][DuplicateSubmission =>
            /\ last'.record = <<>>
            /\ ~form'.submitted
            /\ storage' = storage /\ surveyData' = surveyData
            /\ \/ last'.kind = "none"
               \/ /\ last'.kind = "bool" /\ last'.flag
                  /\ form'.ticketError = "answered"]_vars

\* C1 witness: a second submission for a stored ticket was just refused
C1_Witness ==
    /\ last.op = "handleSubmit" /\ last.kind = "bool" /\ last.flag
    /\ last.ticketId = T77
    /\ \E i \in 1..Len(Persisted(storage)) :
          /\ Persisted(storage)[i].ticketId = T77
          /\ Persisted(storage)[i] \notin SeedSet

\* C2: on the local backend a getAll that follows a successful clear
\* returns the empty collection.
C2_ClearThenListAllEmpty ==
    [][(/\ IsLocal
        /\ last.op = "clear" /\ Succeeded(last)
        /\ last'.op = "getAll" /\ ~last'.threw)
       => last'.list = <<>>]_vars

\* C3: on the local backend the seed set is written to storage at most
\* once, whatever getAll, add, remove and clear calls are made.
C3_SeedWrittenAtMostOnce == IsLocal => seedWrites <= 1

\* C4: on the local backend the seed is written only by a call that finds
\* the collection empty; and of two getAll calls in a row on a fresh store,
\* the first of which seeds it, the second returns the same seed set,
\* writes nothing, and storage holds each seed record exactly once.
C4_SeedingIdempotent ==
    /\ [][(IsLocal /\ last'.seeded) => Len(Persisted(storage)) = 0]_vars
    /\ [][(/\ IsLocal
           /\ last.op = "getAll" /\ last.seeded
           /\ last'.op = "getAll")
          => /\ ~last'.threw /\ ~last'.seeded
             /\ last.list = SEED_DATA
             /\ last'.list = last.list
             /\ storage' = storage
             /\ Persisted(storage') = SEED_DATA]_vars

\* C4 witness: a getAll that did not seed returned the seed set the store
\* was seeded with once
C4_Witness ==
    /\ IsLocal
    /\ last.op = "getAll" /\ ~last.seeded /\ ~last.threw
    /\ seedWrites = 1
    /\ last.list = SEED_DATA
    /\ Persisted(storage) = SEED_DATA

SeedIds == {SEED_DATA_dbService[i].id : i \in 1..Len(SEED_DATA_dbService)}

\* the variants of remove that answer a boolean: DatabaseService.remove and the
\* asynchronous dbService.remove
RemoveAnswersFlag == impl \in {"database", "dbAsync"}

\* C5: with DatabaseService or the asynchronous dbService, once remove(id)
\* has succeeded for the id of an inserted record (an id no seed record
\* has), the active backend holds no record with that id, and the getAll
\* that follows returns none; this holds also of calls that meet a failed
\* read, write or fetch.
C5_RemovedStaysRemoved ==
    /\ [][(/\ RemoveAnswersFlag
           /\ last'.op = "remove" /\ Succeeded(last')
           /\ last'.id \notin SeedIds)
          => ~IdIn(Backing', last'.id)]_vars
    /\ [][(/\ RemoveAnswersFlag
           /\ last.op = "remove" /\ Succeeded(last)
           /\ last.id \notin SeedIds
           /\ last'.op = "getAll" /\ ~last'.threw)
          => ~IdIn(last'.list, last.id)]_vars

\* C5 witness: a record that had been inserted was just removed
C5_Witness ==
    /\ RemoveAnswersFlag
    /\ last.op = "remove" /\ Succeeded(last)
    /\ last.record # <<>>
    /\ last.record[1] \notin SeedSet /\ last.id \notin SeedIds
    /\ ~IdIn(Backing, last.id)

\* what getAll returns when it is called next and nothing fails
ListAll == getAll(<<TRUE, TRUE>>, "ok").list

\* C6: on the local backend, after an add that found the store empty has
\* returned normally with every storage access succeeding, getAll returns
\* exactly the added record, with no seed record beside it (the case
\* n = 1).
C6_InsertIntoEmptyStore ==
    [][(/\ IsLocal
        /\ Len(Persisted(storage)) = 0
        /\ last'.op = "add" /\ ~last'.threw /\ ~last'.fault)
       => ListAll' = last'.record]_vars

\* C7: a checkTicketExists(t) that returns answers true exactly when the
\* collection of the active backend, as the call leaves it, holds a record
\* whose ticketId is t with the white space at its two ends removed.
C7_ExistsByTicketId ==
    (last.op = "checkTicketExists" /\ ~last.threw)
    => (last.flag <=>
          \E i \in 1..Len(Backing) :
              /\ Len(Backing[i].ticketId) <= Len(last.ticketId)
              /\ \E a, b \in 0..Len(last.ticketId) :
                    /\ a + Len(Backing[i].ticketId) + b = Len(last.ticketId)
                    /\ \A k \in 1..Len(last.ticketId) :
                          IF k <= a \/ k > a + Len(Backing[i].ticketId)
                          THEN last.ticketId[k] \in WhiteSpace
                          ELSE last.ticketId[k] = Backing[i].ticketId[k - a])

\* C8: when add or remove returns normally on the local backend, the
\* collection in storage is the collection it returned (or, for the
\* variants that return the record or a flag, holds the record added,
\* holds no record with the id removed).
C8_ReturnMatchesStorage ==
    (IsLocal /\ last.op \in {"add", "remove"} /\ Succeeded(last))
    => /\ last.kind = "list" => Persisted(storage) = last.list
       /\ last.kind = "record" => last.list[1] \in Range(Persisted(storage))
       /\ (last.kind = "bool" /\ last.op = "remove") => ~IdIn(Persisted(storage), last.id)

\* C9: with the remote backend, a getAll whose fetch is unreachable, is
\* answered with a non-success status or with a payload that is no array
\* throws; it returns no list.
C9_RemoteReadFailureThrows ==
    (useCloud /\ last.op = "getAll" /\ last.net # "ok") => last.threw

\* C10: a getAll that could not read or parse the backing collection
\* returns no record that is absent from that collection.
C10_NoFabricatedRecords ==
    (/\ last.op = "getAll" /\ ~last.threw
     /\ IF useCloud THEN last.net # "ok" ELSE storage.kind = "corrupt")
    => \A i \in 1..Len(last.list) : last.list[i] \in Range(Backing)

\* the records of a collection with the ticketId
WithTicket(records, ticketId) ==
    {i \in 1..Len(records) : records[i].ticketId = ticketId}

\* C11: two tabs share one localStorage and each validates a ticket and then
\* inserts. The insert of a tab whose validation answered "not existing"
\* appends its record whether or not the other tab has stored the ticket
\* since, so the collection is left with two records of one ticketId.
C11_CheckThenInsertRace ==
    [][(/\ last'.op = "handleSurveySubmit" /\ ~last'.threw
        /\ TicketIn(Persisted(storage), last'.record[1].ticketId))
       => /\ Persisted(storage') = Persisted(storage) \o last'.record
          /\ Cardinality(WithTicket(Persisted(storage'), last'.record[1].ticketId)) >= 2]_vars

\* C11 witness: both tabs validated, both inserts completed, and the
\* collection holds two records for the ticket
C11_Witness ==
    /\ \A c \in Tabs :
          /\ tabs[c].submitted /\ tabs[c].pending = {}
          /\ TicketIn(tabs[c].surveyData, T77)
    /\ Cardinality(WithTicket(Persisted(storage), T77)) = 2

\* C12: on the local backend, a remove(id) of DatabaseService or of the
\* asynchronous dbService whose id no stored record has returns true, when
\* it returns, and leaves the contents of the collection as they were.
C12_RemoveUnknownId ==
    [][(/\ IsLocal /\ RemoveAnswersFlag
        /\ last'.op = "remove" /\ ~last'.threw
        /\ ~IdIn(Persisted(storage), last'.id))
       => /\ last'.kind = "bool" /\ last'.flag
          /\ Persisted(storage') = Persisted(storage)]_vars

\* C12 witness: remove was called with an id no record has, on an empty
\* collection and on one that holds records
C12_Witness ==
    /\ IsLocal /\ RemoveAnswersFlag
    /\ last.op = "remove" /\ last.id = <<"z">> /\ last.record = <<>>
    /\ last.flag
    /\ Len(Persisted(storage)) > 0

\* C13: with the remote configuration, where DatabaseService has no route
\* that deletes every record, clear() fails: the call throws instead of
\* returning, and the remote collection is left as it was.
C13_ClearUnsupportedThrows ==
    [][(/\ impl = "database" /\ useCloud
        /\ last'.op = "clear")
       => /\ last'.threw
          /\ remote' = remote]_vars

\* whether a collection holds the record
Holds(records, record) == \E i \in 1..Len(records) : records[i] = record

\* C14: when the write of a submission fails, the record is not left in the
\* displayed list: after handleSurveySubmit has called add, the list shows
\* the new record only if the stored collection holds it.
C14_FailedInsertNotDisplayed ==
    [][(/\ last'.op = "handleSubmit" /\ last'.record # <<>>
        /\ ~Holds(Persisted(storage'), last'.record[1]))
       => ~Holds(surveyData', last'.record[1])]_vars

\* C15: a submission that validation rejects (blank ticket, blank customer,
\* a rating of 0, or a ticket already answered) calls no add, and the
\* stored collection is exactly what it was before the attempt.
C15_RejectionLeavesStore ==
    [][(/\ last'.op = "handleSubmit"
        /\ form'.ticketError # "" \/ ~form'.submitted)
       => /\ last'.record = <<>>
          /\ surveyData' = surveyData
          /\ storage' = storage]_vars

\* C16: no two records of the stored collection have the same id, whatever
\* the sequence of seeding, submissions, removals and clears.
C16_IdsUnique ==
    \A i, j \in 1..Len(Persisted(storage)) :
        Persisted(storage)[i].id = Persisted(storage)[j].id => i = j

\* the three star groups of a record
RatingsOf(record) == <<record.easeRating, record.processRating, record.solutionRating>>

\* C17: every record the form passes to onSubmit has its three ratings in
\* 1..5: a form in which a star group was never clicked (rating 0) produces
\* no record, so no stored or displayed record has a rating outside 1..5.
C17_RatingsInRange ==
    /\ last.op = "handleSubmit" /\ last.record # <<>>
       => Range(RatingsOf(last.record[1])) \subseteq 1..5
    /\ \A i \in 1..Len(Persisted(storage)) :
           Range(RatingsOf(Persisted(storage)[i])) \subseteq 1..5
    /\ \A i \in 1..Len(surveyData) : Range(RatingsOf(surveyData[i])) \subseteq 1..5

\* C17 witness: the form passed a record to onSubmit
C17_Witness ==
    /\ last.op = "handleSubmit" /\ last.record # <<>>
    /\ form.submitted
    /\ RatingsOf(last.record[1]) = <<4, 5, 3>>
    /\ Holds(surveyData, last.record[1])

-----------------------------------------------------------------------------
(* DatabaseService.setLocalData and getLocalData on collections of any     *)
(* content: what one writes to the key, the other reads from it.           *)

\* the longest collection written
MaxLen == 2

\* records whose texts hold the characters JSON.stringify escapes
WrittenRecords ==
    { SurveyResponse(<<"a">>, T77, <<"c">>, r[1], r[2], r[3], comment, Now)
        : r \in {<<1, 2, 3>>, <<5, 4, 1>>},
          comment \in {<<>>, <<"\"">>, <<"\\", "n">>, <<"o", "\\", "\"">>} }
    \cup {SEED_DATA_dbService[1], SEED_DATA_dbService[2],
          SurveyResponse(<<"b">>, T1001, <<"C", "\"", "x">>, 3, 3, 5,
                         <<"a", "\r", "\n", "b", "\n">>, Now)}

RECURSIVE Collections(_)
Collections(n) ==
    IF n = 0 THEN {<<>>}
    ELSE Collections(n - 1)
         \cup {Append(data, r) : data \in {d \in Collections(n - 1) : Len(d) = n - 1},
                                 r \in WrittenRecords}

\* setLocalData(data): setItem of JSON.stringify(data), which may throw
DatabaseService_setLocalData(st, rem, data, w) ==
    IF w THEN Returns(Stored(data), rem, data, FALSE, FALSE)
    ELSE Throws(st, rem, FALSE)

SetLocalData ==
    /\ \E data \in Collections(MaxLen), w \in BOOLEAN :
          Apply("setLocalData", <<>>, <<>>, <<>>, "ok",
                DatabaseService_setLocalData(storage, remote, data, w))
    /\ UNCHANGED <<surveyData, app, form, tabs, dashboard, calls>>

GetLocalData ==
    /\ last.op = "setLocalData"
    /\ Apply("getLocalData", <<>>, <<>>, <<>>, "ok",
             Returns(storage, remote, DatabaseService_getLocalData(storage), FALSE,
                     storage.kind = "corrupt"))
    /\ UNCHANGED <<surveyData, app, form, tabs, dashboard, calls>>

InitRoundTrip ==
    /\ impl = "database" /\ useCloud = FALSE
    /\ storage = Absent
    /\ remote = <<>>
    /\ last = NoCall
    /\ seedWrites = 0
    /\ surveyData = <<>>
    /\ app = NoApp
    /\ form = NoForm
    /\ tabs = <<>>
    /\ dashboard = NoDashboard
    /\ calls = NoCalls

NextRoundTrip ==
    \/ SetLocalData
    \/ GetLocalData

SpecRoundTrip == InitRoundTrip /\ [][NextRoundTrip]_vars

\* C18: a collection written to the local backend is read back equal to what
\* was written: as many records, in the same order, each with the same id,
\* ticketId, customerId, three ratings, comment and timestamp.
C18_RoundTrip ==
    [][(/\ last.op = "setLocalData" /\ ~last.threw
        /\ last'.op = "getLocalData")
       => /\ ~last'.threw
          /\ Len(last'.list) = Len(last.list)
          /\ \A i \in 1..Len(last.list) :
                /\ last'.list[i].id = last.list[i].id
                /\ last'.list[i].ticketId = last.list[i].ticketId
                /\ last'.list[i].customerId = last.list[i].customerId
                /\ RatingsOf(last'.list[i]) = RatingsOf(last.list[i])
                /\ last'.list[i].comment = last.list[i].comment
                /\ last'.list[i].timestamp = last.list[i].timestamp]_vars

\* C18 witness: two different records, one with a comment of escaped
\* characters, were written and read back
C18_Witness ==
    /\ last.op = "getLocalData"
    /\ Len(last.list) = 2
    /\ last.list[1] # last.list[2]
    /\ last.list[1].comment = <<"o", "\\", "\"">>
    /\ last.list[2] = SEED_DATA_dbService[2]

-----------------------------------------------------------------------------
(* analyzeSurveyData, in its two variants, and the Dashboard that awaits   *)
(* it.  The summarizer is outside the program: its answer is an input.     *)

\* data.slice(-20)
RecentCount == 20

recentData(data) ==
    IF Len(data) <= RecentCount THEN data
    ELSE SubSeq(data, Len(data) - RecentCount + 1, Len(data))

Sentiments == {"Positivo", "Neutro", "Negativo"}

\* the fallback of the catch
Fallback_Analysis ==
    [overallSentiment |-> "Neutro", summary |-> <<"n", "a", "o">>,
     painPoints |-> <<>>, recommendations |-> <<>>]

\* AIAnalysisResult: the four members, overallSentiment one of the three
IsAIAnalysisResult(v) ==
    /\ DOMAIN v = {"overallSentiment", "summary", "painPoints", "recommendations"}
    /\ v.overallSentiment \in Sentiments

\* what ai.models.generateContent may do: reject (network, quota, key), answer
\* with no text, with a text JSON.parse throws on, or with a JSON text, which
\* is the value JSON.parse returns for it
GenerateContent ==
    { [kind |-> "rejects", value |-> NoAnalysis],
      [kind |-> "empty", value |-> NoAnalysis],
      [kind |-> "unparsable", value |-> NoAnalysis],
      [kind |-> "json",
       value |-> [overallSentiment |-> "Positivo", summary |-> <<"o", "k">>,
                  painPoints |-> <<>>, recommendations |-> << <<"r">> >>]],
      [kind |-> "json",
       value |-> [overallSentiment |-> "Negativo", summary |-> <<"k", "o">>,
                  painPoints |-> << <<"p">> >>, recommendations |-> << <<"r">> >>]],
      [kind |-> "json", value |-> NoAnalysis],
      [kind |-> "json", value |-> [overallSentiment |-> "Positivo", summary |-> <<"o", "k">>]] }

Resolves(value) == Outcome(storage, remote, "analysis", <<value>>, FALSE, FALSE, FALSE, FALSE)

Rejects == Outcome(storage, remote, "none", <<>>, FALSE, TRUE, FALSE, TRUE)

\* the try and its catch, the same in both variants
analyzeSurveyData_try(data, response) ==
    IF response.kind = "json" THEN Resolves(response.value)
    ELSE Resolves(Fallback_Analysis)

\* src/services/geminiService.ts
geminiService_analyzeSurveyData(data, response) == analyzeSurveyData_try(data, response)

\* the older variant, which tests its client before the try
older_analyzeSurveyData(apiKey, data, response) ==
    IF ~apiKey THEN Rejects
    ELSE analyzeSurveyData_try(data, response)

analyzeSurveyData(data, response) ==
    IF dashboard.service = "geminiService" THEN geminiService_analyzeSurveyData(data, response)
    ELSE older_analyzeSurveyData(dashboard.apiKey, data, response)

\* Dashboard.handleRunAnalysis up to its await; the button is disabled while
\* an analysis is loading or nothing is listed
HandleRunAnalysis ==
    /\ ~dashboard.loadingAnalysis /\ Len(surveyData) # 0
    /\ dashboard' = [dashboard EXCEPT !.loadingAnalysis = TRUE, !.pending = TRUE]
    /\ last' = NoCall
    /\ UNCHANGED <<impl, useCloud, storage, remote, seedWrites, surveyData, app, form, tabs,
                 calls>>

\* the awaited analyzeSurveyData settles; try, catch and finally of the handler
HandleRunAnalysisDone ==
    /\ dashboard.pending
    /\ \E response \in GenerateContent :
        \E result \in {analyzeSurveyData(surveyData, response)} :
            /\ last' = Call("analyzeSurveyData", <<>>, <<>>, recentData(surveyData),
                            response.kind, result)
            /\ dashboard' = [dashboard EXCEPT
                               !.analysis = IF result.threw THEN @ ELSE result.list[1],
                               !.loadingAnalysis = FALSE,
                               !.pending = FALSE]
    /\ UNCHANGED <<impl, useCloud, storage, remote, seedWrites, surveyData, app, form, tabs,
                 calls>>

\* the deployments: the service of src/services with its key, the older one
\* with or without
AnalysisConfigs == {<<"geminiService", TRUE>>, <<"older", TRUE>>, <<"older", FALSE>>}

InitAnalysis ==
    /\ impl = "database" /\ useCloud = FALSE
    /\ storage = Absent
    /\ remote = <<>>
    /\ last = NoCall
    /\ seedWrites = 0
    /\ surveyData \in Collections(MaxLen)
    /\ app = NoApp
    /\ form = NoForm
    /\ tabs = <<>>
    /\ \E c \in AnalysisConfigs :
          dashboard = [NoDashboard EXCEPT !.service = c[1], !.apiKey = c[2]]
    /\ calls = NoCalls

NextAnalysis ==
    \/ HandleRunAnalysis
    \/ HandleRunAnalysisDone

SpecAnalysis == InitAnalysis /\ [][NextAnalysis]_vars

\* C19: analyzeSurveyData never rejects and always resolves with a value of
\* the AIAnalysisResult shape; when the summarizer rejects, or answers with
\* no text or with a text that cannot be parsed, the value is the neutral
\* default: 'Neutro' with no painPoints and no recommendations.
C19_AnalysisAlwaysResolves ==
    [][last'.op = "analyzeSurveyData"
       => /\ ~last'.threw
          /\ IsAIAnalysisResult(last'.list[1])
          /\ last'.net # "json"
             => /\ last'.list[1].overallSentiment = "Neutro"
                /\ last'.list[1].painPoints = <<>>
                /\ last'.list[1].recommendations = <<>>]_vars

\* the variants of add that answer the record: DatabaseService.add and the
\* asynchronous dbService.add
AddAnswersRecord == impl \in {"database", "dbAsync"}

\* C20: on the local backend, an add(r) of DatabaseService or of the
\* asynchronous dbService that returns has appended exactly r: the stored
\* collection is the previous one followed by r, every earlier record in
\* its place, and the call returns r.
C20_AddAppends ==
    [][(/\ IsLocal /\ AddAnswersRecord
        /\ last'.op = "add" /\ ~last'.threw)
       => /\ last'.kind = "record" /\ last'.list = last'.record
          /\ Len(Persisted(storage')) = Len(Persisted(storage)) + 1
          /\ \A i \in 1..Len(Persisted(storage)) :
                Persisted(storage')[i] = Persisted(storage)[i]
          /\ Persisted(storage')[Len(Persisted(storage'))] = last'.record[1]]_vars

\* C20 witness: a record was added behind the records already stored
C20_Witness ==
    /\ IsLocal /\ AddAnswersRecord
    /\ last.op = "add" /\ last.kind = "record"
    /\ Len(Persisted(storage)) >= 3
    /\ Persisted(storage)[1] \in SeedSet
    /\ Persisted(storage)[Len(Persisted(storage)) - 1] \notin SeedSet
    /\ Persisted(storage)[Len(Persisted(storage))] = last.record[1]
    /\ Persisted(storage)[Len(Persisted(storage)) - 1] # last.record[1]

\* the variants of remove named with the removal of a stored record:
\* DatabaseService.remove and the synchronous dbService.remove
RemoveOfStored == impl \in {"database", "dbSync"}

\* C21: on the local backend, a remove(id) that returns, for an id a stored
\* record has, takes exactly one record out of the stored collection, the
\* one with that id, and leaves the others stored in their order.
C21_RemoveExactlyOne ==
    [][(/\ IsLocal /\ RemoveOfStored
        /\ last'.op = "remove" /\ ~last'.threw
        /\ IdIn(Persisted(storage), last'.id))
       => /\ Persisted(storage') = FilterOutId(Persisted(storage), last'.id)
          /\ Len(Persisted(storage')) = Len(Persisted(storage)) - 1]_vars

\* C22: handleClearDataConfirm calls clear only when the password it is
\* given is the administrative one; with any other password the stored
\* collection and the displayed list are as before and the confirmation
\* modal stays open.
C22_ClearGatedByPassword ==
    [][last'.op = "handleClearDataConfirm"
       => IF last'.password = "Service123"
          THEN last'.kind = "list" \/ last'.threw
          ELSE /\ last'.kind = "none" /\ ~last'.threw
               /\ storage' = storage
               /\ surveyData' = surveyData
               /\ app' = app /\ app'.showClearDataModal]_vars

\* C22 witness: a wrong password was given while records were listed
C22_Witness ==
    /\ last.op = "handleClearDataConfirm" /\ last.password = "Alterar123"
    /\ app.showClearDataModal
    /\ Len(surveyData) > 0 /\ Len(Persisted(storage)) > 0

\* C29: the dashboard is shown only after authentication: whenever
\* currentView is DASHBOARD, isAuthenticated is true; a login with a wrong
\* password changes neither; and while the page stays loaded
\* isAuthenticated, once true, stays true.
C29_DashboardNeedsLogin ==
    /\ [](app.currentView = "DASHBOARD" => app.isAuthenticated)
    /\ [][(last'.op = "handleLogin" /\ last'.password # "Alterar123")
          => /\ app'.currentView = app.currentView
             /\ app'.isAuthenticated = app.isAuthenticated]_vars
    /\ [][(app.isAuthenticated /\ app'.mounted) => app'.isAuthenticated]_vars

\* C29 witness: the right password was given and the dashboard is shown
C29_Witness ==
    /\ last.op = "handleLogin" /\ last.password = "Alterar123"
    /\ app.currentView = "DASHBOARD" /\ app.isAuthenticated
    /\ ~app.showLoginModal

-----------------------------------------------------------------------------
(* The Dashboard over the list it is given: the search filter, the metrics *)
(* and the CSV export.                                                     *)

UpperCase == <<"A", "B", "C", "T", "X">>
LowerCase == <<"a", "b", "c", "t", "x">>

\* String.prototype.toLowerCase, over the letters of the model's texts
toLowerCase(s) ==
    [i \in 1..Len(s) |->
        IF \E k \in 1..Len(UpperCase) : UpperCase[k] = s[i]
        THEN LowerCase[CHOOSE k \in 1..Len(UpperCase) : UpperCase[k] = s[i]]
        ELSE s[i]]

\* String.prototype.includes
includes(s, term) ==
    \E i \in 0..(Len(s) - Len(term)) : SubSeq(s, i + 1, i + Len(term)) = term

SearchTerms == {<<>>, <<" ">>, <<"7">>, <<"C">>}

filteredData(data, searchTerm) ==
    LET lowerTerm == toLowerCase(searchTerm)
        Match(item) == \/ includes(item.ticketId, lowerTerm)
                       \/ includes(toLowerCase(item.customerId), lowerTerm)
    IN  IF Trim(searchTerm) = <<>> THEN data ELSE SelectSeq(data, Match)

\* reduce((acc, cur) => acc + cur.<rating>, 0), rating 1, 2 or 3 of RatingsOf
RECURSIVE reduce(_, _)
reduce(data, rating) ==
    IF data = <<>> THEN 0
    ELSE reduce(SubSeq(data, 1, Len(data) - 1), rating) + RatingsOf(data[Len(data)])[rating]

\* a quotient of two integers, kept as the pair it is computed from
Quotient(n, d) == [num |-> n, den |-> d]

\* metrics with a recentTrend taken from the front of the list
metrics_TrendFromFront(data) ==
    LET total == Len(data)
        recent == IF total <= RecentCount THEN data ELSE SubSeq(data, 1, RecentCount)
    IN  IF total = 0
        THEN [total |-> 0, avgEase |-> Quotient(0, 1), avgProcess |-> Quotient(0, 1),
              avgSolution |-> Quotient(0, 1), recentTrend |-> <<>>]
        ELSE [total |-> total,
              avgEase |-> Quotient(reduce(data, 1), total),
              avgProcess |-> Quotient(reduce(data, 2), total),
              avgSolution |-> Quotient(reduce(data, 3), total),
              recentTrend |->
                  [i \in 1..Len(recent) |->
                      [name |-> <<"#">> \o recent[i].ticketId,
                       ease |-> recent[i].easeRating,
                       process |-> recent[i].processRating,
                       solution |-> recent[i].solutionRating]]]

metrics(data) ==
    LET total == Len(data)
        recent == recentData(data)
    IN  IF total = 0
        THEN [total |-> 0, avgEase |-> Quotient(0, 1), avgProcess |-> Quotient(0, 1),
              avgSolution |-> Quotient(0, 1), recentTrend |-> <<>>]
        ELSE [total |-> total,
              avgEase |-> Quotient(reduce(data, 1), total),
              avgProcess |-> Quotient(reduce(data, 2), total),
              avgSolution |-> Quotient(reduce(data, 3), total),
              recentTrend |->
                  [i \in 1..Len(recent) |->
                      [name |-> <<"#">> \o recent[i].ticketId,
                       ease |-> recent[i].easeRating,
                       process |-> recent[i].processRating,
                       solution |-> recent[i].solutionRating]]]

\* Array.prototype.join
RECURSIVE join(_, _)
join(texts, separator) ==
    IF texts = <<>> THEN <<>>
    ELSE IF Len(texts) = 1 THEN texts[1]
    ELSE texts[1] \o separator \o join(Tail(texts), separator)

\* replace(/"/g, '""')
RECURSIVE DoubleQuotes(_)
DoubleQuotes(text) ==
    IF text = <<>> THEN <<>>
    ELSE (IF Head(text) = "\"" THEN <<"\"", "\"">> ELSE <<Head(text)>>)
         \o DoubleQuotes(Tail(text))

\* replace(/(\r\n|\n|\r)/gm, " ")
RECURSIVE SpaceForBreaks(_)
SpaceForBreaks(text) ==
    IF text = <<>> THEN <<>>
    ELSE IF Len(text) >= 2 /\ text[1] = "\r" /\ text[2] = "\n"
    THEN <<" ">> \o SpaceForBreaks(SubSeq(text, 3, Len(text)))
    ELSE IF Head(text) \in {"\n", "\r"} THEN <<" ">> \o SpaceForBreaks(Tail(text))
    ELSE <<Head(text)>> \o SpaceForBreaks(Tail(text))

cleanComment(row) ==
    IF row.comment # <<>>
    THEN <<"\"">> \o SpaceForBreaks(DoubleQuotes(row.comment)) \o <<"\"">>
    ELSE <<"\"", "\"">>

cleanCustomer(row) == <<"\"">> \o row.customerId \o <<"\"">>

\* the eight column titles, each written here as one piece of text
headers ==
    << <<"ID Interno">>, <<"Chamado">>, <<"Cliente">>, <<"Facilidade Abertura (1-5)">>,
       <<"Processo/Agendamento (1-5)">>, <<"Solução Técnica (1-5)">>,
       <<"Comentário">>, <<"Data/Hora">> >>

csvRows(data) ==
    <<join(headers, <<";">>)>>
    \o [i \in 1..Len(data) |->
          join(<<data[i].id, data[i].ticketId, cleanCustomer(data[i]),
                 NumberText(data[i].easeRating), NumberText(data[i].processRating),
                 NumberText(data[i].solutionRating), cleanComment(data[i]),
                 data[i].timestamp>>, <<";">>)]

\* the byte order mark, U+FEFF
BOM == <<"﻿">>

\* BOM + csvRows.join('\n')
csvString(data) == BOM \o join(csvRows(data), <<"\n">>)

\* the search box
HandleSearchChange ==
    /\ \E term \in SearchTerms : dashboard' = [dashboard EXCEPT !.searchTerm = term]
    /\ last' = NoCall
    /\ UNCHANGED <<impl, useCloud, storage, remote, seedWrites, surveyData, app, form, tabs,
                 calls>>

\* Dashboard.handleDownloadExcel: the text of the file, or the alert and no file
HandleDownloadExcel ==
    /\ LET data == filteredData(surveyData, dashboard.searchTerm)
       IN  last' = IF Len(data) = 0
                   THEN [NoCall EXCEPT !.op = "handleDownloadExcel"]
                   ELSE [NoCall EXCEPT !.op = "handleDownloadExcel", !.kind = "csv",
                                       !.list = <<csvString(data)>>]
    /\ UNCHANGED <<impl, useCloud, storage, remote, seedWrites, surveyData, app, form,
                   tabs, dashboard, calls>>

\* a list of n records, longer than the recent window when n > RecentCount
ManyRecords(n) ==
    [i \in 1..n |->
        SurveyResponse(<<"a">>, NumberText(i), <<"c">>, 1 + (i % 5), 5, 1 + (i % 2), <<>>, Now)]

InitDashboard ==
    /\ impl = "database" /\ useCloud = FALSE
    /\ storage = Absent
    /\ remote = <<>>
    /\ last = NoCall
    /\ seedWrites = 0
    /\ surveyData \in Collections(MaxLen)
                      \cup {ManyRecords(RecentCount + n) : n \in 0..MaxLen}
    /\ app = NoApp
    /\ form = NoForm
    /\ tabs = <<>>
    /\ dashboard = NoDashboard
    /\ calls = NoCalls

NextDashboard ==
    \/ HandleSearchChange
    \/ HandleDownloadExcel

SpecDashboard == InitDashboard /\ [][NextDashboard]_vars

\* a free text between double quotes, its double quotes doubled and its line
\* breaks taken out
QuotedText(text) == <<"\"">> \o SpaceForBreaks(DoubleQuotes(text)) \o <<"\"">>

\* C23: the export of the filtered records is one header row and then one
\* row for each record, in the order of the list, the fields joined by ';',
\* customerId and comment between double quotes with every double quote
\* doubled and no line break left; of an empty filtered list no export is
\* made.
C23_CsvExport ==
    [][last'.op = "handleDownloadExcel"
       => LET data == filteredData(surveyData, dashboard.searchTerm)
              Row(r) == join(<<r.id, r.ticketId, QuotedText(r.customerId),
                               NumberText(r.easeRating), NumberText(r.processRating),
                               NumberText(r.solutionRating), QuotedText(r.comment),
                               r.timestamp>>, <<";">>)
          IN  IF Len(data) = 0 THEN last'.kind = "none" /\ last'.list = <<>>
              ELSE /\ last'.kind = "csv"
                   /\ last'.list[1] =
                        BOM
                        \o join(<<join(headers, <<";">>)>> \o [i \in 1..Len(data) |-> Row(data[i])],
                                <<"\n">>)]_vars

\* whether two quotients are the same number
SameNumber(p, q) == p.num * q.den = q.num * p.den

\* the records the metrics are computed from
Filtered == filteredData(surveyData, dashboard.searchTerm)

\* C24: of the filtered records, total is their number; each average is the
\* sum of that rating over them divided by total, and 0 when there is none;
\* the trend series is the last min(20, total) of them in their order.
C24_Metrics ==
    LET m == metrics(Filtered)
        SumOf(rating) ==
            LET Upto[i \in 0..Len(Filtered)] ==
                    IF i = 0 THEN 0 ELSE Upto[i - 1] + RatingsOf(Filtered[i])[rating]
            IN  Upto[Len(Filtered)]
        Average(rating) ==
            IF Len(Filtered) = 0 THEN Quotient(0, 1)
            ELSE Quotient(SumOf(rating), Len(Filtered))
        shown == IF Len(Filtered) < 20 THEN Len(Filtered) ELSE 20
    IN  /\ m.total = Len(Filtered)
        /\ m.avgEase.den # 0 /\ m.avgProcess.den # 0 /\ m.avgSolution.den # 0
        /\ SameNumber(m.avgEase, Average(1))
        /\ SameNumber(m.avgProcess, Average(2))
        /\ SameNumber(m.avgSolution, Average(3))
        /\ Len(m.recentTrend) = shown
        /\ \A i \in 1..shown :
              LET r == Filtered[Len(Filtered) - shown + i]
              IN  m.recentTrend[i] =
                      [name |-> <<"#">> \o r.ticketId, ease |-> r.easeRating,
                       process |-> r.processRating, solution |-> r.solutionRating]

\* C24 witness: a search leaves more than twenty records, of different ratings
C24_Witness ==
    /\ dashboard.searchTerm = <<"C">>
    /\ Len(Filtered) > 20
    /\ Filtered[1].easeRating # Filtered[2].easeRating
    /\ Filtered[1].ticketId # Filtered[Len(Filtered) - 19].ticketId

\* C25: in the asynchronous App over the asynchronous dbService, whenever
\* the App awaits no call of the data service, the displayed list holds
\* exactly the records of the stored collection.
C25_DisplayedIsPersisted ==
    \A c \in Tabs :
        (/\ impl = "dbAsync"
         /\ tabs[c] # ClosedTab
         /\ tabs[c].pending = {} /\ ~tabs[c].isAppLoading)
        => tabs[c].surveyData = Persisted(storage)

\* C26: with DatabaseService, in its two configurations and in its cloud
\* variant, a checkTicketExists(t) that returns never answers false while
\* the collection of the active backend holds a record with ticketId t,
\* whatever the fetch meets.
C26_GuardNotFailOpen ==
    [][(/\ impl \in {"database", "cloud"}
        /\ last'.op = "checkTicketExists" /\ ~last'.threw
        /\ TicketIn(Backing, Trim(last'.ticketId)))
       => last'.flag]_vars

-----------------------------------------------------------------------------
(* add and remove of the asynchronous local stores, called without awaiting *)
(* one another: each call sets its timer, and reads and writes the key in   *)
(* the turn in which the timer fires.                                       *)

\* the calls issued in one run
MaxIssued == 3

\* the stores whose add and remove await a timer and then use localStorage
CallConfigs == {<<"dbAsync", FALSE>>, <<"database", FALSE>>}

\* the records the calls add
CallRecords == {record \in NewRecords : record.ticketId = T77}

\* a call of add or remove; seen: what the key held when the call was made
CallOf(op, record) ==
    [op |-> op, record |-> record, seen |-> storage, left |-> 0, ahead |-> 0]

\* add and remove that read the key before they await their timer
stored_BeforeTimer(call) == call.seen

\* localStorage.getItem(DB_KEY) of add and remove, after the awaited timer
stored(call) == storage

\* a call is made while the earlier ones are still pending
Issued(call) == [calls EXCEPT !.issued = @ + 1, !.pending = Awaiting(@, call)]

IssueAdd ==
    /\ calls.issued < MaxIssued
    /\ \E record \in CallRecords : calls' = Issued(CallOf("add", record))
    /\ AsyncQuiet
    /\ UNCHANGED <<surveyData, app, form, tabs, dashboard>>

IssueRemove ==
    /\ calls.issued < MaxIssued
    /\ \E record \in CallRecords : calls' = Issued(CallOf("remove", record))
    /\ AsyncQuiet
    /\ UNCHANGED <<surveyData, app, form, tabs, dashboard>>

\* a tenth of a second passes for the timers of the calls
CallsTick ==
    /\ calls.pending # {}
    /\ \A p \in calls.pending : p.left > 0
    /\ calls' = [calls EXCEPT !.pending = {[p EXCEPT !.left = @ - 1] : p \in @}]
    /\ AsyncQuiet
    /\ UNCHANGED <<surveyData, app, form, tabs, dashboard>>

\* the timer of an add has run out: the rest of add runs in one turn
RunAdd ==
    /\ \E p \in Due(calls, "add"), w \in WritesOf(FALSE, TRUE) :
         \E out \in {IF impl = "dbAsync"
                      THEN dbAsync_add(stored(p), remote, p.record, w)
                      ELSE DatabaseService_addLocal(stored(p), remote, p.record, w)} :
            /\ Apply("add", p.record.id, <<>>, <<p.record>>, "ok", out)
            /\ calls' = [calls EXCEPT
                    !.pending = Settled(@, p),
                    !.added = IF out.threw THEN @ ELSE @ \cup {p.record}]
    /\ UNCHANGED <<surveyData, app, form, tabs, dashboard>>

\* the timer of a remove has run out: the rest of remove runs in one turn
RunRemove ==
    /\ \E p \in Due(calls, "remove"), w \in WritesOf(FALSE, TRUE) :
         \E out \in {IF impl = "dbAsync"
                      THEN dbAsync_remove(stored(p), remote, p.record.id, w)
                      ELSE DatabaseService_removeLocal(stored(p), remote, p.record.id, w)} :
            /\ Apply("remove", p.record.id, <<>>, <<>>, "ok", out)
            /\ calls' = [calls EXCEPT
                    !.pending = Settled(@, p),
                    !.removed = @ \cup {p.record.id}]
    /\ UNCHANGED <<surveyData, app, form, tabs, dashboard>>

InitCalls ==
    /\ \E c \in CallConfigs : impl = c[1] /\ useCloud = c[2]
    /\ storage = Absent
    /\ remote = <<>>
    /\ last = NoCall
    /\ seedWrites = 0
    /\ surveyData = <<>>
    /\ app = NoApp
    /\ form = NoForm
    /\ tabs = [c \in Tabs |-> ClosedTab]
    /\ dashboard = NoDashboard
    /\ calls = NoCalls

NextCalls ==
    \/ IssueAdd
    \/ IssueRemove
    \/ CallsTick
    \/ RunAdd
    \/ RunRemove

SpecCalls == InitCalls /\ [][NextCalls]_vars

\* C27: on the asynchronous local stores, once every add and remove that
\* was called has settled, the stored collection holds every record whose
\* add returned and for whose id no remove was called, however the calls
\* overlapped.
C27_NoLostUpdate ==
    calls.pending = {}
    => \A record \in calls.added :
          record.id \notin calls.removed => record \in Range(Persisted(storage))

\* C27 witness: two adds were pending together with a remove of the id of one
\* of them, all three have settled, and the other record was kept
C27_Witness ==
    /\ calls.pending = {}
    /\ Cardinality(calls.added) = 2
    /\ \E kept, gone \in calls.added :
          /\ calls.removed = {gone.id} /\ kept.id # gone.id
          /\ kept \in Range(Persisted(storage))
          /\ gone \notin Range(Persisted(storage))

\* C28: the form shows its confirmation only for a record that is stored:
\* when handleSubmit sets submitted, the stored collection holds the record
\* it passed to onSubmit, also when the write of add fails.
C28_SubmittedIsPersisted ==
    [][(last'.op = "handleSubmit" /\ form'.submitted)
       => /\ last'.record # <<>>
          /\ Holds(Persisted(storage'), last'.record[1])]_vars

-----------------------------------------------------------------------------
(* The busy flags of the asynchronous App and of the Dashboard, with every  *)
(* timer firing and every request settling.                                 *)

\* the handlers of the App and the handler of the Dashboard share no state:
\* either the App is followed from its mount, or the Dashboard from the
\* moment it was handed a list (surveyData)
InitLive ==
    /\ \E c \in AsyncConfigs : impl = c[1] /\ useCloud = c[2]
    /\ storage = Absent
    /\ remote = <<>>
    /\ last = NoCall
    /\ seedWrites = 0
    /\ app = NoApp
    /\ form = NoForm
    /\ calls = NoCalls
    /\ \/ /\ surveyData = <<>>
          /\ tabs = [c \in Tabs |-> IF c = 1 THEN NoTab ELSE ClosedTab]
          /\ dashboard = NoDashboard
       \/ /\ surveyData = SEED_DATA
          /\ tabs = [c \in Tabs |-> ClosedTab]
          /\ \E c \in AnalysisConfigs :
                dashboard = [NoDashboard EXCEPT !.service = c[1], !.apiKey = c[2]]

NextLive ==
    \/ Tick
    \/ FetchDataDone
    \/ HandleRefreshData
    \/ SubmitForm
    \/ ValidateDone
    \/ AddDone
    \/ ClearStart
    \/ ClearDone
    \/ HandleRunAnalysis
    \/ HandleRunAnalysisDone

\* a timer that was set fires, and a request that was sent is answered or fails
SpecLive ==
    /\ InitLive /\ [][NextLive]_vars
    /\ WF_vars(Tick)
    /\ WF_vars(FetchDataDone)
    /\ WF_vars(ValidateDone)
    /\ WF_vars(AddDone)
    /\ WF_vars(ClearDone)
    /\ WF_vars(HandleRunAnalysisDone)

\* C30: every busy flag that is set is cleared again: isAppLoading of
\* fetchData, isProcessing of handleSurveySubmit and handleClearDataConfirm,
\* and loadingAnalysis of handleRunAnalysis, whether the awaited call
\* returns or throws.
C30_BusyFlagsCleared ==
    /\ \A c \in Tabs :
          (tabs[c] # ClosedTab /\ tabs[c].isAppLoading) ~> ~tabs[c].isAppLoading
    /\ \A c \in Tabs :
          (tabs[c] # ClosedTab /\ tabs[c].isProcessing) ~> ~tabs[c].isProcessing
    /\ dashboard.loadingAnalysis ~> ~dashboard.loadingAnalysis

\* C30 witness: the list was loaded, a submission was awaited under the
\* overlay, its add has thrown, and the overlay is gone
C30_Witness ==
    /\ last.op = "handleSurveySubmit" /\ last.threw
    /\ tabs[1] # ClosedTab
    /\ ~tabs[1].isProcessing /\ ~tabs[1].isAppLoading

====
